---- MODULE Spec2Model ----
(***************************************************************************)
(* Model of the Kalshi hourly BTC signal generator: the edge calculator    *)
(* and the phase-aware decision gate of src/engines/edge-kalshi.js.        *)
(*                                                                         *)
(* Numbers: probabilities, market quotes and edges are counted in          *)
(* hundredths (0.05 is 5, 1.0 is 100), the unit of a Kalshi quote in       *)
(* cents.  remainingMinutes is counted in whole minutes.  A JavaScript     *)
(* value that may be null is a sequence: <<>> is null, <<n>> the number n. *)
(***************************************************************************)
EXTENDS Integers, Sequences, FiniteSets, TLC

\* ------------------------------------------------------------------ bounds
MaxMinutes == 60
MaxEdge == 25
MaxQuote == 120
MaxMarkets == 3
MaxCycles == 2
MaxSeries == 12
MaxCandles == 3
MaxAttempts == 3

\* ------------------------------------------------------- values and inputs
Null == <<>>
Num(n) == <<n>>
\* the number a JavaScript arithmetic operator sees: null coerces to 0
JsNum(x) == IF x = Null THEN 0 ELSE x[1]

WindowChoices == {15, 30, 60}
Minutes == {0, 5, 10, 19, 20, 21, 25, 39, 40, 41, 45, MaxMinutes}
EdgeVals == {-15, 2, 4, 5, 9, 10, 18, 19, 20, MaxEdge}
ProbVals == {32, 54, 55, 59, 60, 62, 64, 65, 68}
QuoteVals == {-5, 0, 46, 50, 100, MaxQuote}
OptNum(S) == {Null} \cup {Num(n) : n \in S}
SeqsUpTo(S, n) == UNION {[1..k -> S] : k \in 0..n}

\* the raw value of a property of a JSON response: a number, a string
\* (Text("") the empty string, Text("abc") a string that is no number), or
\* undefined for a property that is missing
JsonNum(n) == [type |-> "number", value |-> n]
Text(str) == [type |-> "string", value |-> str]
Undefined == [type |-> "undefined"]

\* what a request that failed with an exception delivers
Thrown == [thrown |-> TRUE]

\* Kalshi markets of a response: a ticker "KXBTCD-<date>-T<strike>" is its
\* letter and strike, a ticker without such a part has letter "";
\* close_time is in minutes on the clock of Date.now(), Null an invalid date
Tickers == {[letter |-> "T", strike |-> 75000], [letter |-> "B", strike |-> 74500],
            [letter |-> "", strike |-> 0]}
CloseTimes == {Null, Num(0), Num(60), Num(120), Num(180)}
ListedMarkets ==
  {[ticker |-> t, close_time |-> c, yes_bid |-> JsonNum(50), no_bid |-> JsonNum(46)] :
     t \in Tickers, c \in CloseTimes}
NowChoices == {0, 60}
BtcPrices == {Null, Num(74700), Num(74750)}

RawBids == {Undefined, JsonNum(0), Text(""), Text("abc"), JsonNum(50)}

\* inputs of a cycle of the host loop
HostMinutes == {10, 45}
HostProbs == {32, 68}
HostPrices == {Null, Num(74700)}
HostMarkets ==
  {<<>>} \cup
  {<<[ticker |-> [letter |-> "T", strike |-> 75000], close_time |-> Num(60),
      yes_bid |-> y, no_bid |-> n]>> : y \in RawBids, n \in RawBids}

VARIABLES candleWindowMinutes, fn, args, ret
callVars == <<candleWindowMinutes, fn, args, ret>>

\* the host: CONFIG.kalshi.autoTrade, the position in main's loop, the number
\* of the cycle, the requests in flight, the locals of the cycle, the orders
\* handed to placeOrder, the module-level trade tracking, and the two log files
VARIABLES autoTrade, pc, cycle, inflight,
          timeLeftMin, lastPrice, kalshi, timeAware, edge, rec,
          orders, lastTradeTimestamp, currentPosition,
          signalFile, csvRows
cycleLocals == <<timeLeftMin, lastPrice, kalshi, timeAware, edge, rec>>
tradeVars == <<orders, lastTradeTimestamp, currentPosition>>
logVars == <<signalFile, csvRows>>
hostVars == <<autoTrade, pc, cycle, inflight, cycleLocals, tradeVars, logVars>>

\* the Coinbase ticker stream: the closure of startCoinbaseTickerStream (ws,
\* lastTick, reconnectTimer, isConnected) and what it acts on: the sockets it
\* constructed, the timers pending, the subscribe messages sent
VARIABLE stream
vars == <<callVars, hostVars, stream>>
\* the stream before startCoinbaseTickerStream is called
StreamOff ==
  [ws |-> Null, lastTick |-> Null, reconnectTimer |-> Null, isConnected |-> FALSE,
   sockets |-> <<>>, timers |-> {}, timerSeq |-> 0, sent |-> <<>>,
   attempts |-> 0, cleaned |-> FALSE, crashed |-> FALSE, lastEvent |-> [kind |-> "none"]]

\* ------------------------------------------------------------ utils.clamp
clamp(x, lo, hi) == IF x < lo THEN lo ELSE IF x > hi THEN hi ELSE x

\* ------------------------------------------------------------ computeEdge
computeEdge_yesOnly(modelUp, modelDown, marketYes, marketNo) ==
  IF marketYes = Null
  THEN [marketUp |-> Null, marketDown |-> Null, edgeUp |-> Null, edgeDown |-> Null]
  ELSE [marketUp |-> Num(clamp(JsNum(marketYes), 0, 100)),
        marketDown |-> Num(clamp(JsNum(marketNo), 0, 100)),
        edgeUp |-> Num(JsNum(modelUp) - JsNum(marketYes)),
        edgeDown |-> Num(JsNum(modelDown) - JsNum(marketNo))]

\* computeEdge with the quotes rescaled to sum to 1 before use
computeEdge_normalized(modelUp, modelDown, marketYes, marketNo) ==
  IF marketYes = Null \/ marketNo = Null
  THEN [marketUp |-> Null, marketDown |-> Null, edgeUp |-> Null, edgeDown |-> Null]
  ELSE LET sum == JsNum(marketYes) + JsNum(marketNo)
           marketUp == IF sum > 0 THEN (JsNum(marketYes) * 100) \div sum
                       ELSE JsNum(marketYes)
           marketDown == IF sum > 0 THEN 100 - marketUp ELSE JsNum(marketNo)
           edgeUp == JsNum(modelUp) - marketUp
           edgeDown == JsNum(modelDown) - marketDown
       IN [marketUp |-> Num(clamp(marketUp, 0, 100)),
           marketDown |-> Num(clamp(marketDown, 0, 100)),
           edgeUp |-> Num(edgeUp),
           edgeDown |-> Num(edgeDown)]

computeEdge(modelUp, modelDown, marketYes, marketNo) ==
  IF marketYes = Null \/ marketNo = Null
  THEN [marketUp |-> Null, marketDown |-> Null, edgeUp |-> Null, edgeDown |-> Null]
  ELSE LET marketUp == JsNum(marketYes)
           marketDown == JsNum(marketNo)
           edgeUp == JsNum(modelUp) - marketUp
           edgeDown == JsNum(modelDown) - marketDown
       IN [marketUp |-> Num(clamp(marketUp, 0, 100)),
           marketDown |-> Num(clamp(marketDown, 0, 100)),
           edgeUp |-> Num(edgeUp),
           edgeDown |-> Num(edgeDown)]

\* ---------------------------------------------------------------- decide
\* `${x}` of a number 0 <= x < 1 given in hundredths: 5 is "0.05", 10 is "0.1"
Digit(d) == <<"0", "1", "2", "3", "4", "5", "6", "7", "8", "9">>[d + 1]
numberToString(h) ==
  "0." \o Digit(h \div 10) \o (IF h % 10 = 0 THEN "" ELSE Digit(h % 10))

phaseOf_inclusive(remainingMinutes) ==
  IF remainingMinutes >= 40 THEN "EARLY"
  ELSE IF remainingMinutes >= 20 THEN "MID" ELSE "LATE"

phaseOf(remainingMinutes) ==
  IF remainingMinutes > 40 THEN "EARLY"
  ELSE IF remainingMinutes > 20 THEN "MID" ELSE "LATE"

thresholdOf_reversed(phase) ==
  IF phase = "EARLY" THEN 20 ELSE IF phase = "MID" THEN 10 ELSE 5

thresholdOf(phase) ==
  IF phase = "EARLY" THEN 5 ELSE IF phase = "MID" THEN 10 ELSE 20

minProbOf_flat(phase) == 55

minProbOf(phase) ==
  IF phase = "EARLY" THEN 55 ELSE IF phase = "MID" THEN 60 ELSE 65

bestSideOf_smaller(edgeUp, edgeDown) ==
  IF edgeUp < edgeDown THEN "UP" ELSE "DOWN"

bestSideOf_tieUp(edgeUp, edgeDown) ==
  IF edgeUp >= edgeDown THEN "UP" ELSE "DOWN"

bestSideOf(edgeUp, edgeDown) ==
  IF edgeUp > edgeDown THEN "UP" ELSE "DOWN"

strengthOf_weak(bestEdge) ==
  IF bestEdge >= 20 THEN "STRONG" ELSE IF bestEdge >= 10 THEN "GOOD" ELSE "WEAK"

strengthOf_strict(bestEdge) ==
  IF bestEdge > 20 THEN "STRONG" ELSE IF bestEdge > 10 THEN "GOOD" ELSE "OPTIONAL"

strengthOf(bestEdge) ==
  IF bestEdge >= 20 THEN "STRONG" ELSE IF bestEdge >= 10 THEN "GOOD" ELSE "OPTIONAL"

decide_noNullGuard(remainingMinutes, edgeUp, edgeDown, modelUp, modelDown) ==
  LET phase == phaseOf(remainingMinutes)
      threshold == thresholdOf(phase)
      minProb == minProbOf(phase)
      bestSide == bestSideOf(JsNum(edgeUp), JsNum(edgeDown))
      bestEdge == IF bestSide = "UP" THEN JsNum(edgeUp) ELSE JsNum(edgeDown)
      bestModel == IF bestSide = "UP" THEN modelUp ELSE modelDown
  IN IF bestEdge < threshold
     THEN [action |-> "NO_TRADE", side |-> "null", phase |-> phase,
           reason |-> "edge_below_" \o numberToString(threshold),
           edgeUp |-> edgeUp, edgeDown |-> edgeDown]
     ELSE IF bestModel # Null /\ bestModel[1] < minProb
     THEN [action |-> "NO_TRADE", side |-> "null", phase |-> phase,
           reason |-> "prob_below_" \o numberToString(minProb),
           edgeUp |-> edgeUp, edgeDown |-> edgeDown]
     ELSE [action |-> "ENTER", side |-> bestSide, phase |-> phase,
           strength |-> strengthOf(bestEdge), edge |-> Num(bestEdge),
           edgeUp |-> edgeUp, edgeDown |-> edgeDown]

decide(remainingMinutes, edgeUp, edgeDown, modelUp, modelDown) ==
  LET phase == phaseOf(remainingMinutes)
      threshold == thresholdOf(phase)
      minProb == minProbOf(phase)
  IN IF edgeUp = Null \/ edgeDown = Null
     THEN [action |-> "NO_TRADE", side |-> "null", phase |-> phase,
           reason |-> "missing_market_data", edgeUp |-> Null, edgeDown |-> Null]
     ELSE LET bestSide == bestSideOf(edgeUp[1], edgeDown[1])
              bestEdge == IF bestSide = "UP" THEN edgeUp[1] ELSE edgeDown[1]
              bestModel == IF bestSide = "UP" THEN modelUp ELSE modelDown
          IN IF bestEdge < threshold
             THEN [action |-> "NO_TRADE", side |-> "null", phase |-> phase,
                   reason |-> "edge_below_" \o numberToString(threshold),
                   edgeUp |-> edgeUp, edgeDown |-> edgeDown]
             ELSE IF bestModel # Null /\ bestModel[1] < minProb
             THEN [action |-> "NO_TRADE", side |-> "null", phase |-> phase,
                   reason |-> "prob_below_" \o numberToString(minProb),
                   edgeUp |-> edgeUp, edgeDown |-> edgeDown]
             ELSE [action |-> "ENTER", side |-> bestSide, phase |-> phase,
                   strength |-> strengthOf(bestEdge), edge |-> Num(bestEdge),
                   edgeUp |-> edgeUp, edgeDown |-> edgeDown]

\* ---------------------------------------------- fetchCurrentKxbtcMarket
\* 2 * 60 * 60 * 1000 ms, in minutes
TwoHours == 120

\* ticker.match(/-([TB])(\d+(?:\.\d+)?)/): the strike, or 0 without a match
strikePriceOf(ticker) == IF ticker.letter \in {"T", "B"} THEN ticker.strike ELSE 0

Abs(x) == IF x < 0 THEN -x ELSE x

\* the filter of the markets closing in the next two hours; every comparison
\* with the NaN of an invalid date is false
closesSoon_exclusive(m, now) ==
  /\ m.close_time # Null
  /\ m.close_time[1] > now /\ m.close_time[1] < now + TwoHours

closesSoon(m, now) ==
  /\ m.close_time # Null
  /\ m.close_time[1] > now /\ m.close_time[1] <= now + TwoHours

\* the comparators of the two sorts: a negative result puts a before b
sortsBefore_timeOnly(a, b, price) == a.close_time[1] < b.close_time[1]

sortsBefore(a, b, price) ==
  IF price = Null
  THEN a.close_time[1] < b.close_time[1]
  ELSE \/ a.close_time[1] < b.close_time[1]
       \/ /\ a.close_time[1] = b.close_time[1]
          /\ Abs(strikePriceOf(a.ticker) - price[1])
               < Abs(strikePriceOf(b.ticker) - price[1])

\* element [0] of the stably sorted array: the first element that no other
\* element sorts before
firstSorted(ms, price) ==
  LET least == {i \in 1..Len(ms) : \A j \in 1..Len(ms) : ~sortsBefore(ms[j], ms[i], price)}
  IN ms[CHOOSE i \in least : \A k \in least : i <= k]

fetchCurrentKxbtcMarket(resOk, markets, now, currentBtcPrice) ==
  IF ~resOk THEN Thrown
  ELSE IF Len(markets) = 0 THEN Null
  ELSE LET soonMarkets == SelectSeq(markets, LAMBDA m : closesSoon(m, now))
       IN IF Len(soonMarkets) = 0 THEN Null
          ELSE IF currentBtcPrice = Null
          THEN firstSorted(soonMarkets, Null)
          ELSE LET m == firstSorted(soonMarkets, currentBtcPrice)
               IN [ticker |-> m.ticker, close_time |-> m.close_time,
                   yes_bid |-> m.yes_bid, no_bid |-> m.no_bid,
                   strikePrice |-> strikePriceOf(m.ticker),
                   distance |-> Abs(strikePriceOf(m.ticker) - currentBtcPrice[1]),
                   closeTime |-> m.close_time[1]]

\* ------------------------------------------------------------------ state
\* the host before main runs
HostIdle ==
  /\ pc = "loop"
  /\ cycle = 0
  /\ inflight = {}
  /\ timeLeftMin = Null /\ lastPrice = Null /\ kalshi = Null
  /\ timeAware = Null /\ edge = Null /\ rec = Null
  /\ orders = <<>>
  /\ lastTradeTimestamp = 0
  /\ currentPosition = Null
  /\ signalFile = Null
  /\ csvRows = <<>>

Init ==
  /\ candleWindowMinutes \in WindowChoices
  /\ fn = "none"
  /\ args = <<>>
  /\ ret = <<>>
  /\ autoTrade = FALSE
  /\ HostIdle
  /\ stream = StreamOff

CallComputeEdge ==
  /\ fn = "none"
  /\ \E modelUp \in OptNum(ProbVals), modelDown \in OptNum(ProbVals),
        marketYes \in OptNum(QuoteVals), marketNo \in OptNum(QuoteVals) :
       /\ fn' = "computeEdge"
       /\ args' = [modelUp |-> modelUp, modelDown |-> modelDown,
                   marketYes |-> marketYes, marketNo |-> marketNo]
       /\ ret' = computeEdge(modelUp, modelDown, marketYes, marketNo)
  /\ UNCHANGED <<candleWindowMinutes, hostVars, stream>>

CallDecide ==
  /\ fn = "none"
  /\ \E remainingMinutes \in Minutes,
        edgeUp \in OptNum(EdgeVals), edgeDown \in OptNum(EdgeVals),
        modelUp \in OptNum(ProbVals), modelDown \in OptNum(ProbVals) :
       /\ fn' = "decide"
       /\ args' = [remainingMinutes |-> remainingMinutes,
                   edgeUp |-> edgeUp, edgeDown |-> edgeDown,
                   modelUp |-> modelUp, modelDown |-> modelDown]
       /\ ret' = decide(remainingMinutes, edgeUp, edgeDown, modelUp, modelDown)
  /\ UNCHANGED <<candleWindowMinutes, hostVars, stream>>

CallFetchCurrentKxbtcMarket ==
  /\ fn = "none"
  /\ \E resOk \in BOOLEAN, markets \in SeqsUpTo(ListedMarkets, MaxMarkets),
        now \in NowChoices, currentBtcPrice \in BtcPrices :
       /\ fn' = "fetchCurrentKxbtcMarket"
       /\ args' = [resOk |-> resOk, markets |-> markets, now |-> now,
                   currentBtcPrice |-> currentBtcPrice]
       /\ ret' = fetchCurrentKxbtcMarket(resOk, markets, now, currentBtcPrice)
  /\ UNCHANGED <<candleWindowMinutes, hostVars, stream>>

\* toNumber: Number(x) when that is finite, else null; Number("") is 0,
\* Number(undefined) and Number("abc") are NaN
toNumber(x) ==
  IF x.type = "number" THEN Num(x.value)
  ELSE IF x.type = "string" /\ x.value = "" THEN Num(0)
  ELSE Null

\* ------------------------------------------------------- main: vwapSlope
\* CONFIG.vwapSlopeLookbackMinutes
vwapSlopeLookbackMinutes == 10
\* VWAP values of a series, chosen ten apart so that the division by the
\* lookback is exact
VwapVals == {100, 110}
VwapSeriesChoices == SeqsUpTo(VwapVals, MaxSeries)

\* arr[i] of a JavaScript array, i counted from 0
At(arr, i) == arr[i + 1]

vwapSlope(vwapSeries, lookback) ==
  IF Len(vwapSeries) >= lookback
  THEN LET vwapNow == At(vwapSeries, Len(vwapSeries) - 1)
       IN Num((vwapNow - At(vwapSeries, Len(vwapSeries) - lookback)) \div lookback)
  ELSE Null

CallVwapSlope ==
  /\ fn = "none"
  /\ \E vwapSeries \in VwapSeriesChoices :
       /\ fn' = "vwapSlope"
       /\ args' = [vwapSeries |-> vwapSeries, lookback |-> vwapSlopeLookbackMinutes]
       /\ ret' = [vwapSlope |-> vwapSlope(vwapSeries, vwapSlopeLookbackMinutes)]
  /\ UNCHANGED <<candleWindowMinutes, hostVars, stream>>

\* ------------------------------------------------- main: the MACD labels
\* the result of computeMacd: null without enough history, else the
\* histogram and its change (null on the first value)
HistVals == {-3, 0, 4}
HistDeltaVals == {-1, 0, 2}
MacdChoices ==
  {Null} \cup {[hist |-> h, histDelta |-> d] : h \in HistVals, d \in OptNum(HistDeltaVals)}

macdLabel(macd) ==
  IF macd = Null THEN "-"
  ELSE IF macd.hist < 0
       THEN (IF macd.histDelta # Null /\ macd.histDelta[1] < 0
             THEN "bearish (expanding)" ELSE "bearish")
       ELSE (IF macd.histDelta # Null /\ macd.histDelta[1] > 0
             THEN "bullish (expanding)" ELSE "bullish")

\* macd?.hist < 0 ? "bearish" : "bullish"; undefined < 0 is false
macd_signal(macd) ==
  IF macd # Null /\ macd.hist < 0 THEN "bearish" ELSE "bullish"

CallMacdLabels ==
  /\ fn = "none"
  /\ \E macd \in MacdChoices :
       /\ fn' = "macdLabels"
       /\ args' = [macd |-> macd]
       /\ ret' = [macdLabel |-> macdLabel(macd), macd_signal |-> macd_signal(macd)]
  /\ UNCHANGED <<candleWindowMinutes, hostVars, stream>>

\* ------------------------------------------------------------ fetchKlines
\* the interval argument; "2h" is no key of granularityMap, "" is a missing one
Intervals == {"1m", "3m", "5m", "15m", "1h", "1d", "2h", ""}
\* candles of a Coinbase response: [timestamp, low, high, open, close, volume]
CandleTimes == {0, 60, 300, 360}
RawCandles == {<<t, 10, 30, 15, 20, 5>> : t \in CandleTimes}
Responses == SeqsUpTo(RawCandles, MaxCandles)

\* granularityMap[interval] || 60, then 60 for a value Coinbase does not support
granularityOf(interval) ==
  LET mapped == CASE interval = "1m" -> 60
                  [] interval = "3m" -> 180
                  [] interval = "5m" -> 300
                  [] interval = "15m" -> 900
                  [] interval = "1h" -> 3600
                  [] interval = "1d" -> 86400
                  [] OTHER -> 60
  IN IF mapped \in {60, 300, 900, 3600, 21600, 86400} THEN mapped ELSE 60

reverse(arr) == [i \in 1..Len(arr) |-> arr[Len(arr) + 1 - i]]

toKline(candle, granularity) ==
  [openTime |-> At(candle, 0) * 1000,
   open |-> toNumber(JsonNum(At(candle, 3))),
   high |-> toNumber(JsonNum(At(candle, 2))),
   low |-> toNumber(JsonNum(At(candle, 1))),
   close |-> toNumber(JsonNum(At(candle, 4))),
   volume |-> toNumber(JsonNum(At(candle, 5))),
   closeTime |-> (At(candle, 0) + granularity) * 1000]

\* what an async function that returned v resolves to
Resolved(v) == [thrown |-> FALSE, value |-> v]

fetchKlines_noReverse(interval, resOk, data) ==
  IF ~resOk THEN Thrown
  ELSE Resolved([i \in 1..Len(data) |-> toKline(data[i], granularityOf(interval))])

fetchKlines(interval, resOk, data) ==
  IF ~resOk THEN Thrown
  ELSE Resolved(reverse([i \in 1..Len(data) |->
                           toKline(data[i], granularityOf(interval))]))

CallFetchKlines ==
  /\ fn = "none"
  /\ \E interval \in Intervals, resOk \in BOOLEAN, data \in Responses :
       /\ fn' = "fetchKlines"
       /\ args' = [interval |-> interval, resOk |-> resOk, data |-> data]
       /\ ret' = fetchKlines(interval, resOk, data)
  /\ UNCHANGED <<candleWindowMinutes, hostVars, stream>>

Next ==
  \/ CallComputeEdge
  \/ CallDecide
  \/ CallFetchCurrentKxbtcMarket
  \/ CallVwapSlope
  \/ CallMacdLabels
  \/ CallFetchKlines

Spec == Init /\ [][Next]_vars

\* ----------------------------------------------------- fetchKalshiSnapshot
\* the truthiness `x ? a : b` tests
truthy(x) ==
  /\ x.type # "undefined"
  /\ x.type = "number" => x.value # 0
  /\ x.type = "string" => x.value # ""

\* market.yes_bid ? toNumber(market.yes_bid) / 100 : null, a price in
\* hundredths for a bid in cents
bidPrice(bid) == IF truthy(bid) THEN Num(JsNum(toNumber(bid))) ELSE Null

fetchKalshiSnapshot_noCatch(resOk, markets, now, currentBtcPrice, bookOk) ==
  LET market == fetchCurrentKxbtcMarket(resOk, markets, now, currentBtcPrice)
  IN IF market = Thrown THEN Thrown
     ELSE IF market = Null THEN [ok |-> FALSE, reason |-> "market_not_found"]
     ELSE IF ~bookOk THEN Thrown
     ELSE [ok |-> TRUE, market |-> market, ticker |-> market.ticker,
           prices |-> [up |-> bidPrice(market.yes_bid),
                       down |-> bidPrice(market.no_bid)]]

fetchKalshiSnapshot(resOk, markets, now, currentBtcPrice, bookOk) ==
  LET market == fetchCurrentKxbtcMarket(resOk, markets, now, currentBtcPrice)
  IN IF market = Thrown THEN [ok |-> FALSE, reason |-> "fetch_error"]
     ELSE IF market = Null THEN [ok |-> FALSE, reason |-> "market_not_found"]
     ELSE IF ~bookOk THEN [ok |-> FALSE, reason |-> "fetch_error"]
     ELSE [ok |-> TRUE, market |-> market, ticker |-> market.ticker,
           prices |-> [up |-> bidPrice(market.yes_bid),
                       down |-> bidPrice(market.no_bid)]]

\* ------------------------------------------------------------- host: main
\* CONFIG.kalshi.maxPositionSize
maxPositionSize == 10

\* where the catch block of the loop body leaves main: at the sleep that ends
\* the iteration ("exit" would be main's rejection, which ends the process)
afterCatch_rethrow == "exit"

afterCatch == "sleep"

\* executeTradeIfNeeded: the two early returns before an order is placed
shouldPlaceOrder_ignoreConfig(r) == r.action = "ENTER"

shouldPlaceOrder(r) == autoTrade /\ r.action = "ENTER"

\* executeTradeIfNeeded: the position recorded after a successful order
positionOf_yesPrice(side, k, now, spotPrice) ==
  [side |-> side, count |-> maxPositionSize, entryPrice |-> k.prices.up,
   entryTime |-> now, entrySpotPrice |-> spotPrice]

positionOf(side, k, now, spotPrice) ==
  [side |-> side, count |-> maxPositionSize,
   entryPrice |-> IF side = "yes" THEN k.prices.up ELSE k.prices.down,
   entryTime |-> now, entrySpotPrice |-> spotPrice]

\* x || null for a string property of the decision: an absent property,
\* null and "" give null
orNull(r, f) == IF f \in DOMAIN r /\ r[f] \notin {"null", ""} THEN r[f] ELSE "null"

\* main's marketUp / marketDown
marketSide(k, side) == IF k.ok THEN k.prices[side] ELSE Null

\* the signal object main writes to logs/current-signal.json
jsonSignal_bestEdgeUp(k, ta, e, r, mins, now) ==
  [timestamp |-> now,
   ticker |-> IF "ticker" \in DOMAIN k THEN k.ticker ELSE Null,
   signal |-> IF r.action = "ENTER"
              THEN (IF r.side = "UP" THEN "BUY_YES" ELSE "BUY_NO")
              ELSE "NO_TRADE",
   signal_side |-> orNull(r, "side"),
   phase |-> orNull(r, "phase"),
   strength |-> orNull(r, "strength"),
   edge_up |-> e.edgeUp,
   edge_down |-> e.edgeDown,
   best_edge |-> IF r.action = "ENTER" THEN e.edgeUp ELSE Null,
   model_up |-> Num(ta.adjustedUp),
   model_down |-> Num(ta.adjustedDown),
   market_yes |-> marketSide(k, "up"),
   market_no |-> marketSide(k, "down"),
   time_remaining_min |-> mins]

jsonSignal(k, ta, e, r, mins, now) ==
  [timestamp |-> now,
   ticker |-> IF "ticker" \in DOMAIN k THEN k.ticker ELSE Null,
   signal |-> IF r.action = "ENTER"
              THEN (IF r.side = "UP" THEN "BUY_YES" ELSE "BUY_NO")
              ELSE "NO_TRADE",
   signal_side |-> orNull(r, "side"),
   phase |-> orNull(r, "phase"),
   strength |-> orNull(r, "strength"),
   edge_up |-> e.edgeUp,
   edge_down |-> e.edgeDown,
   best_edge |-> IF r.action = "ENTER"
                 THEN (IF r.side = "UP" THEN e.edgeUp ELSE e.edgeDown)
                 ELSE Null,
   model_up |-> Num(ta.adjustedUp),
   model_down |-> Num(ta.adjustedDown),
   market_yes |-> marketSide(k, "up"),
   market_no |-> marketSide(k, "down"),
   time_remaining_min |-> mins]

\* the rest of a pass once executeTradeIfNeeded has returned tradeResult: the
\* CSV row, the signal file, and on to the sleep at the end of the loop body
WriteLogs(k, ta, e, r, tradeResult) ==
  /\ csvRows' = Append(csvRows,
                       [signal |-> IF r.action = "ENTER"
                                   THEN (IF r.side = "UP" THEN "BUY YES" ELSE "BUY NO")
                                   ELSE "NO TRADE",
                        trade_executed |-> IF tradeResult # Null /\ tradeResult.success
                                           THEN "YES" ELSE "NO"])
  /\ signalFile' = jsonSignal(k, ta, e, r, timeLeftMin, cycle)
  /\ pc' = "sleep"

\* top of the while loop: getCandleWindowTiming, then fetchLastPrice is awaited
StartCycle ==
  /\ pc = "loop"
  /\ cycle < MaxCycles
  /\ cycle' = cycle + 1
  /\ \E m \in HostMinutes : timeLeftMin' = Num(m)
  /\ inflight' = inflight \cup {<<cycle + 1, "lastPrice">>}
  /\ pc' = "fetchLastPrice"
  /\ UNCHANGED <<callVars, stream, autoTrade, lastPrice, kalshi, timeAware, edge, rec,
                 tradeVars, logVars>>

\* fetchLastPrice resolves: the three requests of Promise.all start
LastPriceResolved ==
  /\ pc = "fetchLastPrice"
  /\ \E price \in HostPrices : lastPrice' = price
  /\ inflight' = (inflight \ {<<cycle, "lastPrice">>})
                   \cup {<<cycle, "klines1m">>, <<cycle, "klines5m">>, <<cycle, "kalshi">>}
  /\ pc' = "fetchAll"
  /\ UNCHANGED <<callVars, stream, autoTrade, cycle, timeLeftMin, kalshi, timeAware, edge, rec,
                 tradeVars, logVars>>

\* fetchLastPrice rejects: the catch block logs the error
LastPriceRejected ==
  /\ pc = "fetchLastPrice"
  /\ inflight' = inflight \ {<<cycle, "lastPrice">>}
  /\ pc' = afterCatch
  /\ UNCHANGED <<callVars, stream, autoTrade, cycle, cycleLocals, tradeVars, logVars>>

\* one fetchKlines of the cycle resolves
KlinesResolved ==
  /\ pc = "fetchAll"
  /\ \E name \in {"klines1m", "klines5m"} :
       /\ <<cycle, name>> \in inflight
       /\ inflight' = inflight \ {<<cycle, name>>}
  /\ UNCHANGED <<callVars, stream, autoTrade, pc, cycle, cycleLocals, tradeVars, logVars>>

\* one fetchKlines of the cycle rejects: Promise.all rejects at once and the
\* catch block runs, whatever the other requests are doing
KlinesRejected ==
  /\ pc = "fetchAll"
  /\ \E name \in {"klines1m", "klines5m"} :
       /\ <<cycle, name>> \in inflight
       /\ inflight' = inflight \ {<<cycle, name>>}
  /\ pc' = afterCatch
  /\ UNCHANGED <<callVars, stream, autoTrade, cycle, cycleLocals, tradeVars, logVars>>

\* fetchKalshiSnapshot of the cycle settles
KalshiSettled ==
  /\ pc = "fetchAll"
  /\ <<cycle, "kalshi">> \in inflight
  /\ inflight' = inflight \ {<<cycle, "kalshi">>}
  /\ \E resOk \in BOOLEAN, markets \in HostMarkets, bookOk \in BOOLEAN :
       LET k == fetchKalshiSnapshot(resOk, markets, 0, lastPrice, bookOk)
       IN IF k = Thrown
          THEN pc' = afterCatch /\ kalshi' = kalshi
          ELSE pc' = pc /\ kalshi' = k
  /\ UNCHANGED <<callVars, stream, autoTrade, cycle, timeLeftMin, lastPrice, timeAware, edge, rec,
                 tradeVars, logVars>>

\* a request whose cycle was abandoned settles: nobody reads its result
AbandonedSettled ==
  /\ \E f \in inflight :
       /\ ~(f[1] = cycle /\ pc \in {"fetchLastPrice", "fetchAll"})
       /\ inflight' = inflight \ {f}
  /\ UNCHANGED <<callVars, stream, autoTrade, pc, cycle, cycleLocals, tradeVars, logVars>>

\* Promise.all has resolved: indicators, probabilities, computeEdge, decide and
\* executeTradeIfNeeded up to its await of placeOrder; without an order the pass
\* runs on to the logs
PipelinePass ==
  /\ pc = "fetchAll"
  /\ \A f \in inflight : f[1] # cycle
  /\ \E p \in HostProbs :
       LET ta == [adjustedUp |-> p, adjustedDown |-> 100 - p]
           marketUp == marketSide(kalshi, "up")
           marketDown == marketSide(kalshi, "down")
           e == computeEdge(Num(ta.adjustedUp), Num(ta.adjustedDown), marketUp, marketDown)
           r == decide(timeLeftMin[1], e.edgeUp, e.edgeDown,
                       Num(ta.adjustedUp), Num(ta.adjustedDown))
       IN /\ timeAware' = ta
          /\ edge' = e
          /\ rec' = r
          /\ IF shouldPlaceOrder(r)
             THEN LET side == IF r.side = "UP" THEN "yes" ELSE "no"
                      priceDecimal == IF side = "yes" THEN kalshi.prices.up
                                      ELSE kalshi.prices.down
                  IN /\ orders' = Append(orders,
                                         [ticker |-> kalshi.ticker, side |-> side,
                                          action |-> "buy", count |-> maxPositionSize,
                                          price |-> JsNum(priceDecimal), now |-> cycle])
                     /\ pc' = "placeOrder"
                     /\ UNCHANGED logVars
             ELSE /\ WriteLogs(kalshi, ta, e, r, Null)
                  /\ UNCHANGED orders
  /\ UNCHANGED <<callVars, stream, autoTrade, cycle, inflight, timeLeftMin, lastPrice, kalshi,
                 lastTradeTimestamp, currentPosition>>

\* placeOrder resolves: the trade is recorded, then the logs are written
PlaceOrderResolved ==
  /\ pc = "placeOrder"
  /\ LET order == orders[Len(orders)]
         position == positionOf(order.side, kalshi, order.now, lastPrice)
     IN /\ lastTradeTimestamp' = order.now
        /\ currentPosition' = position
        /\ WriteLogs(kalshi, timeAware, edge, rec, [success |-> TRUE, position |-> position])
  /\ UNCHANGED <<callVars, stream, autoTrade, cycle, inflight, cycleLocals, orders>>

\* placeOrder throws or rejects: executeTradeIfNeeded catches it
PlaceOrderRejected ==
  /\ pc = "placeOrder"
  /\ WriteLogs(kalshi, timeAware, edge, rec, [success |-> FALSE])
  /\ UNCHANGED <<callVars, stream, autoTrade, cycle, inflight, cycleLocals, tradeVars>>

\* sleep(CONFIG.pollIntervalMs) is over: the loop body's locals are gone
Sleep ==
  /\ pc = "sleep"
  /\ pc' = "loop"
  /\ timeLeftMin' = Null /\ lastPrice' = Null /\ kalshi' = Null
  /\ timeAware' = Null /\ edge' = Null /\ rec' = Null
  /\ UNCHANGED <<callVars, stream, autoTrade, cycle, inflight, tradeVars, logVars>>

HostInit ==
  /\ candleWindowMinutes = 60
  /\ fn = "none"
  /\ args = <<>>
  /\ ret = <<>>
  /\ autoTrade \in BOOLEAN
  /\ HostIdle
  /\ stream = StreamOff

HostNext ==
  \/ StartCycle
  \/ LastPriceResolved
  \/ LastPriceRejected
  \/ KlinesResolved
  \/ KlinesRejected
  \/ KalshiSettled
  \/ AbandonedSettled
  \/ PipelinePass
  \/ PlaceOrderResolved
  \/ PlaceOrderRejected
  \/ Sleep

HostSpec == HostInit /\ [][HostNext]_vars

\* ------------------------------------------- startCoinbaseTickerStream
\* CONFIG.coinbase.productId
productId == "BTC-USD"
\* a socket is "connecting", "open", "failing" (never opened, its close event
\* is pending after an error or a close() call), "draining" (was open, its
\* close event is pending) or "closed"
Live == {"connecting", "open"}
\* messages of the feed: data that JSON.parse rejects, or an object
TickerPrices == {JsonNum(74700), JsonNum(74800), Text(""), Text("abc"), Undefined}
Messages ==
  {[parsable |-> FALSE]} \cup
  {[parsable |-> TRUE, type |-> t, product_id |-> prod, price |-> pr] :
     t \in {"ticker", "subscriptions"}, prod \in {"BTC-USD", "ETH-USD"},
     pr \in TickerPrices}

scheduleReconnect(st) ==
  IF st.reconnectTimer # Null THEN st
  ELSE [st EXCEPT !.reconnectTimer = Num(st.timerSeq + 1),
                  !.timers = @ \cup {st.timerSeq + 1},
                  !.timerSeq = @ + 1]

\* connect: new WebSocket either throws (ctorOk false) or yields a socket
connect(st, ctorOk) ==
  LET tried == [st EXCEPT !.attempts = @ + 1]
  IN IF ctorOk
     THEN [tried EXCEPT !.sockets = Append(@, "connecting"),
                        !.ws = Num(Len(st.sockets) + 1)]
     ELSE scheduleReconnect(tried)

\* ws.on('open'): ws.send goes to the socket the variable ws holds; with
\* ws null the handler throws
onOpen(st) ==
  LET up == [st EXCEPT !.isConnected = TRUE]
  IN IF st.ws = Null THEN [up EXCEPT !.crashed = TRUE]
     ELSE [up EXCEPT !.sent = Append(@, st.ws[1])]

\* ws.on('message'); of the tick only the price is kept
onMessage_anyProduct(st, msg) ==
  IF msg.parsable /\ msg.type = "ticker" /\ toNumber(msg.price) # Null
  THEN [st EXCEPT !.lastTick = [price |-> toNumber(msg.price)[1]]]
  ELSE st

onMessage(st, msg) ==
  IF msg.parsable /\ msg.type = "ticker" /\ msg.product_id = productId
     /\ toNumber(msg.price) # Null
  THEN [st EXCEPT !.lastTick = [price |-> toNumber(msg.price)[1]]]
  ELSE st

\* ws.on('error') only logs
onError_reconnects(st) == scheduleReconnect(st)

onError(st) == st

\* ws.on('close')
onClose_noReconnect(st) == [st EXCEPT !.isConnected = FALSE]

onClose(st) == scheduleReconnect([st EXCEPT !.isConnected = FALSE])

\* the callback of setTimeout in scheduleReconnect
onTimer(st, ctorOk) ==
  LET cleared == [st EXCEPT !.reconnectTimer = Null]
  IN IF ~cleared.isConnected THEN connect(cleared, ctorOk) ELSE cleared

\* ws.close() of the library: the close event follows later
closeCalled(state) ==
  IF state = "connecting" THEN "failing"
  ELSE IF state = "open" THEN "draining"
  ELSE state

cleanup(st) ==
  LET untimed == IF st.reconnectTimer # Null
                 THEN [st EXCEPT !.timers = @ \ {st.reconnectTimer[1]},
                                 !.reconnectTimer = Null]
                 ELSE st
  IN IF untimed.ws # Null
     THEN [untimed EXCEPT !.sockets[st.ws[1]] = closeCalled(@), !.ws = Null]
     ELSE untimed

Event(st, e) == [st EXCEPT !.lastEvent = e]

SocketOpens ==
  /\ \E s \in 1..Len(stream.sockets) :
       /\ stream.sockets[s] = "connecting"
       /\ stream' = Event(onOpen([stream EXCEPT !.sockets[s] = "open"]),
                          [kind |-> "open", socket |-> s])
  /\ UNCHANGED <<callVars, hostVars>>

SocketErrors ==
  /\ \E s \in 1..Len(stream.sockets) :
       /\ stream.sockets[s] \in Live
       /\ stream' = Event(onError([stream EXCEPT !.sockets[s] = closeCalled(@)]),
                          [kind |-> "error", socket |-> s])
  /\ UNCHANGED <<callVars, hostVars>>

SocketCloses ==
  /\ \E s \in 1..Len(stream.sockets) :
       /\ stream.sockets[s] \in {"open", "failing", "draining"}
       /\ stream' = Event(onClose([stream EXCEPT !.sockets[s] = "closed"]),
                          [kind |-> "close", socket |-> s])
  /\ UNCHANGED <<callVars, hostVars>>

MessageArrives ==
  /\ \E s \in 1..Len(stream.sockets), msg \in Messages :
       /\ stream.sockets[s] = "open"
       /\ stream' = Event(onMessage(stream, msg), [kind |-> "message", msg |-> msg])
  /\ UNCHANGED <<callVars, hostVars>>

TimerFires ==
  /\ stream.attempts < MaxAttempts
  /\ \E t \in stream.timers, ctorOk \in BOOLEAN :
       stream' = Event(onTimer([stream EXCEPT !.timers = @ \ {t}], ctorOk),
                       [kind |-> "timer", ctorOk |-> ctorOk])
  /\ UNCHANGED <<callVars, hostVars>>

Cleanup ==
  /\ stream' = Event([cleanup(stream) EXCEPT !.cleaned = TRUE], [kind |-> "cleanup"])
  /\ UNCHANGED <<callVars, hostVars>>

\* startCoinbaseTickerStream has run: the initial connect() was made
WsInit ==
  /\ candleWindowMinutes = 60
  /\ fn = "none"
  /\ args = <<>>
  /\ ret = <<>>
  /\ autoTrade = FALSE
  /\ HostIdle
  /\ \E ctorOk \in BOOLEAN :
       stream = Event(connect(StreamOff, ctorOk), [kind |-> "start", ctorOk |-> ctorOk])

WsNext ==
  \/ SocketOpens
  \/ SocketErrors
  \/ SocketCloses
  \/ MessageArrives
  \/ TimerFires
  \/ Cleanup

WsSpec == WsInit /\ [][WsNext]_vars

\* setTimeout's callback runs once its delay is over
WsFairSpec == WsSpec /\ WF_vars(TimerFires)

\* ------------------------------------------------------ claims: computeEdge
AllNull(r) ==
  r.marketUp = Null /\ r.marketDown = Null /\ r.edgeUp = Null /\ r.edgeDown = Null
NoneNull(r) ==
  r.marketUp # Null /\ r.marketDown # Null /\ r.edgeUp # Null /\ r.edgeDown # Null

\* C1: computeEdge returns marketUp, marketDown, edgeUp and edgeDown all null
\* if and only if marketYes is null or marketNo is null, whatever the model
\* probabilities are; with both quotes non-null none of the four is null.
C1_NullIffQuoteMissing ==
  fn = "computeEdge" =>
    /\ AllNull(ret) <=> (args.marketYes = Null \/ args.marketNo = Null)
    /\ (args.marketYes # Null /\ args.marketNo # Null) => NoneNull(ret)

C1_Witness ==
  /\ fn = "computeEdge"
  /\ args.marketYes = Num(50) /\ args.marketNo = Null /\ args.modelUp = Num(68)
  /\ AllNull(ret)

\* C2: with both quotes non-null the returned record satisfies
\* edgeUp = modelUp - marketUp and edgeDown = modelDown - marketDown for the
\* returned marketUp and marketDown, which lie in [0,1], also when a quote
\* lies outside [0,1].
C2_EdgeFromReturnedMarket ==
  (/\ fn = "computeEdge"
   /\ args.marketYes # Null /\ args.marketNo # Null
   /\ args.modelUp # Null /\ args.modelDown # Null) =>
    /\ ret.marketUp[1] \in 0..100 /\ ret.marketDown[1] \in 0..100
    /\ ret.edgeUp[1] = args.modelUp[1] - ret.marketUp[1]
    /\ ret.edgeDown[1] = args.modelDown[1] - ret.marketDown[1]

scaledPhase(r, w) ==
  IF 3 * r > 2 * w THEN "EARLY" ELSE IF 3 * r > w THEN "MID" ELSE "LATE"

GateEdgesKnown == args.edgeUp # Null /\ args.edgeDown # Null
GateUpChosen == args.edgeUp[1] > args.edgeDown[1]
GateEdge == IF GateUpChosen THEN args.edgeUp[1] ELSE args.edgeDown[1]
GateModel == IF GateUpChosen THEN args.modelUp ELSE args.modelDown
GateThreshold ==
  IF args.remainingMinutes > 40 THEN 5
  ELSE IF args.remainingMinutes > 20 THEN 10 ELSE 20
GateFloor ==
  IF args.remainingMinutes > 40 THEN 55
  ELSE IF args.remainingMinutes > 20 THEN 60 ELSE 65
GateThresholdName ==
  IF args.remainingMinutes > 40 THEN "edge_below_0.05"
  ELSE IF args.remainingMinutes > 20 THEN "edge_below_0.1" ELSE "edge_below_0.2"
GateFloorName ==
  IF args.remainingMinutes > 40 THEN "prob_below_0.55"
  ELSE IF args.remainingMinutes > 20 THEN "prob_below_0.6" ELSE "prob_below_0.65"

\* C5: whenever edgeUp or edgeDown is null, decide returns NO_TRADE with side
\* null, reason missing_market_data and both returned edges null, in every
\* phase and whatever the model probabilities; no ENTER has a null edge.
C5_NullEdgeNoTrade ==
  fn = "decide" =>
    /\ (args.edgeUp = Null \/ args.edgeDown = Null) =>
         /\ ret.action = "NO_TRADE"
         /\ ret.side = "null"
         /\ ret.reason = "missing_market_data"
         /\ ret.edgeUp = Null /\ ret.edgeDown = Null
    /\ ret.action = "ENTER" =>
         /\ args.edgeUp # Null /\ args.edgeDown # Null
         /\ ret.edgeUp # Null /\ ret.edgeDown # Null

C5_Witness ==
  /\ fn = "decide"
  /\ args.edgeUp = Num(MaxEdge) /\ args.edgeDown = Null
  /\ args.modelUp = Num(68)
  /\ args.remainingMinutes = 45
  /\ ret.reason = "missing_market_data"

\* C6: with both edges non-null, the decision is NO_TRADE whenever the edge of
\* the larger-edge side is strictly below the phase threshold (EARLY 0.05,
\* MID 0.10, LATE 0.20), with the reason edge_below_0.05 / edge_below_0.1 /
\* edge_below_0.2; an edge equal to the threshold is not rejected by this rule.
C6_EdgeBelowThreshold ==
  (fn = "decide" /\ GateEdgesKnown) =>
    /\ GateEdge < GateThreshold =>
         ret.action = "NO_TRADE" /\ ret.reason = GateThresholdName
    /\ GateEdge >= GateThreshold =>
         (ret.action = "ENTER" \/ ret.reason = GateFloorName)

C6_Witness ==
  /\ fn = "decide"
  /\ args.remainingMinutes = 10
  /\ args.edgeUp = Num(18) /\ args.edgeDown = Num(2) /\ args.modelUp = Num(62)
  /\ ret.action = "NO_TRADE" /\ ret.phase = "LATE"
  /\ ret.reason = "edge_below_0.2"

\* C7: when the best edge meets the phase threshold and the chosen side's
\* model probability is known and strictly below the phase floor (EARLY 0.55,
\* MID 0.60, LATE 0.65) the decision is NO_TRADE with reason
\* prob_below_<floor>; a null model probability skips the floor check; every
\* ENTER with a known model probability has it at or above the floor.
C7_ProbBelowFloor ==
  (fn = "decide" /\ GateEdgesKnown) =>
    /\ (GateEdge >= GateThreshold /\ GateModel # Null /\ GateModel[1] < GateFloor) =>
         ret.action = "NO_TRADE" /\ ret.reason = GateFloorName
    /\ (GateEdge >= GateThreshold /\ GateModel = Null) => ret.action = "ENTER"
    /\ (ret.action = "ENTER" /\ GateModel # Null) => GateModel[1] >= GateFloor

C7_Witness ==
  /\ fn = "decide"
  /\ args.remainingMinutes = 25
  /\ args.edgeUp = Num(18) /\ args.edgeDown = Num(2) /\ args.modelUp = Num(59)
  /\ ret.action = "NO_TRADE"
  /\ ret.reason = "prob_below_0.6"

Scenario45 ==
  /\ fn = "decide"
  /\ args = [remainingMinutes |-> 45, edgeUp |-> Num(18), edgeDown |-> Num(-15),
             modelUp |-> Num(68), modelDown |-> Num(32)]

C10_MonotonicInPhase ==
  fn = "decide" =>
    /\ ret.action = "ENTER" =>
         \A r2 \in Minutes :
           r2 >= args.remainingMinutes =>
             LET d2 == decide(r2, args.edgeUp, args.edgeDown,
                              args.modelUp, args.modelDown)
             IN /\ d2.action = "ENTER"
                /\ d2.side = ret.side
                /\ d2.strength = ret.strength
    /\ \A r2 \in Minutes :
         r2 <= args.remainingMinutes =>
           /\ thresholdOf(phaseOf(r2)) >= thresholdOf(ret.phase)
           /\ minProbOf(phaseOf(r2)) >= minProbOf(ret.phase)

C10_Witness ==
  /\ fn = "decide"
  /\ args.remainingMinutes = 10
  /\ args.edgeUp = Num(MaxEdge) /\ args.modelUp = Num(68)
  /\ ret.action = "ENTER" /\ ret.phase = "LATE" /\ ret.side = "UP"

\* ------------------------------------------- claims: decide, decision shape
HasField(r, f) == f \in DOMAIN r

\* the part of the documented Decision shape that does not concern strength
DecisionShape ==
  /\ ret.action \in {"ENTER", "NO_TRADE"}
  /\ ret.phase \in {"EARLY", "MID", "LATE"}
  /\ ret.action = "ENTER" <=> ret.side \in {"UP", "DOWN"}
  /\ ret.action = "NO_TRADE" <=> ret.side = "null"
  /\ HasField(ret, "edgeUp") /\ HasField(ret, "edgeDown")
  /\ ret.action = "NO_TRADE" =>
       /\ HasField(ret, "reason")
       /\ ret.reason \in {"missing_market_data",
                          "edge_below_0.05", "edge_below_0.1", "edge_below_0.2",
                          "prob_below_0.55", "prob_below_0.6", "prob_below_0.65"}

\* C11 (as stated): for every combination of inputs decide returns a
\* well-formed Decision: action ENTER or NO_TRADE, phase EARLY, MID or LATE,
\* side UP or DOWN iff ENTER and null otherwise, strength STRONG, GOOD or
\* OPTIONAL iff ENTER and null otherwise, both edges present, and a reason on
\* every NO_TRADE.
C11_DecisionWellFormed ==
  fn = "decide" =>
    /\ DecisionShape
    /\ HasField(ret, "strength")
    /\ ret.action = "ENTER" <=> ret.strength \in {"STRONG", "GOOD", "OPTIONAL"}
    /\ ret.action = "NO_TRADE" <=> ret.strength = "null"

\* C11 (amended): as stated, except that a NO_TRADE decision carries no
\* strength at all (the property is absent, not null); strength is STRONG,
\* GOOD or OPTIONAL on every ENTER.
C11_DecisionShapeStrengthAbsent ==
  fn = "decide" =>
    /\ DecisionShape
    /\ ret.action = "ENTER" <=> HasField(ret, "strength")
    /\ ret.action = "ENTER" => ret.strength \in {"STRONG", "GOOD", "OPTIONAL"}

C11_Witness ==
  /\ fn = "decide"
  /\ args.edgeUp = Num(4) /\ args.edgeDown = Num(9) /\ args.modelDown = Null
  /\ args.remainingMinutes = 45
  /\ ret.action = "ENTER" /\ ret.strength = "OPTIONAL"

\* C20: with both edges non-null the best side is UP iff edgeUp > edgeDown
\* strictly and DOWN otherwise, so equal edges select DOWN; the edge and the
\* model probability that the threshold and floor checks read are those of the
\* picked side, and no ENTER names the side with the strictly smaller edge.
C20_BestSidePick ==
  (fn = "decide" /\ GateEdgesKnown) =>
    LET up == args.edgeUp[1]
        down == args.edgeDown[1]
        picked == IF up > down THEN "UP" ELSE "DOWN"
        pickedEdge == IF picked = "UP" THEN up ELSE down
        pickedModel == IF picked = "UP" THEN args.modelUp ELSE args.modelDown
    IN /\ ret.action = "ENTER" =>
            /\ ret.side = picked
            /\ ret.edge = Num(pickedEdge)
            /\ up = down => ret.side = "DOWN"
            /\ ret.side = "UP" => up > down
            /\ ret.side = "DOWN" => down >= up
       /\ ret.action = "NO_TRADE" =>
            \/ /\ ret.reason = GateThresholdName
               /\ pickedEdge < GateThreshold
            \/ /\ ret.reason = GateFloorName
               /\ pickedModel # Null /\ pickedModel[1] < GateFloor

C20_Witness ==
  /\ fn = "decide"
  /\ args.edgeUp = Num(20) /\ args.edgeDown = Num(20)
  /\ args.modelUp = Num(54) /\ args.modelDown = Num(68)
  /\ ret.action = "ENTER" /\ ret.side = "DOWN"

\* ------------------------------------- claims: fetchCurrentKxbtcMarket
\* the markets of the response that close in (now, now + 2h]
Candidates ==
  {i \in 1..Len(args.markets) :
     /\ args.markets[i].close_time # Null
     /\ args.markets[i].close_time[1] > args.now
     /\ args.markets[i].close_time[1] <= args.now + 120}

\* C19: given a current BTC price, the market returned is one of the response
\* closing in (now, now + 2h], has the earliest close time among those, and no
\* other candidate with that close time has a strike strictly closer to the
\* price; null is returned when no market closes within the next 2 hours.
C19_ClosestStrikeSoonest ==
  (fn = "fetchCurrentKxbtcMarket" /\ args.resOk /\ args.currentBtcPrice # Null) =>
    /\ Candidates = {} <=> ret = Null
    /\ Candidates # {} =>
         /\ \E i \in Candidates :
              /\ args.markets[i].ticker = ret.ticker
              /\ args.markets[i].close_time = ret.close_time
         /\ \A j \in Candidates :
              LET c == args.markets[j]
                  far(t) == IF t.letter = "" THEN args.currentBtcPrice[1]
                            ELSE IF t.strike > args.currentBtcPrice[1]
                                 THEN t.strike - args.currentBtcPrice[1]
                                 ELSE args.currentBtcPrice[1] - t.strike
              IN /\ ret.close_time[1] <= c.close_time[1]
                 /\ c.close_time = ret.close_time => far(ret.ticker) <= far(c.ticker)

C19_Witness ==
  /\ fn = "fetchCurrentKxbtcMarket"
  /\ args.resOk
  /\ args.currentBtcPrice = Num(74700) /\ args.now = 0
  /\ Len(args.markets) = 3
  /\ args.markets[1].close_time = Num(120) /\ args.markets[1].ticker.letter = "B"
  /\ args.markets[2].close_time = Num(60) /\ args.markets[2].ticker.letter = "T"
  /\ args.markets[3].close_time = Num(60) /\ args.markets[3].ticker.letter = "B"
  /\ ret.close_time = Num(60) /\ ret.ticker.letter = "B"

\* ------------------------------------------------------- claims: the host
\* a pass of the pipeline has run in the current cycle
PassDone == rec # Null
\* a bid that is a number other than 0; every other raw value is absent
\* (missing, zero, empty) or malformed (not coercible to a finite number)
UsableBid(b) == b.type = "number" /\ b.value # 0

\* C12: a market quote that is absent or malformed (yes_bid / no_bid missing,
\* zero or empty, or not coercible to a finite number) reaches the core as
\* null for that side, so the edges are null and the decision of the cycle is
\* NO_TRADE with reason missing_market_data; it never becomes a numeric market
\* probability that yields an edge or an ENTER.
C12_MalformedQuoteIsNull ==
  (PassDone /\ kalshi.ok) =>
    /\ ~UsableBid(kalshi.market.yes_bid) => kalshi.prices.up = Null
    /\ ~UsableBid(kalshi.market.no_bid) => kalshi.prices.down = Null
    /\ (~UsableBid(kalshi.market.yes_bid) \/ ~UsableBid(kalshi.market.no_bid)) =>
         /\ edge.edgeUp = Null /\ edge.edgeDown = Null
         /\ rec.action = "NO_TRADE" /\ rec.reason = "missing_market_data"

\* C13: fetchKalshiSnapshot never throws: without a market it returns
\* {ok:false, reason:'market_not_found'}, on a failed request {ok:false,
\* reason:'fetch_error'}; in such a cycle both market sides are null, the
\* decision is NO_TRADE with reason missing_market_data, no order is placed,
\* and the cycle writes a NO_TRADE signal instead of being aborted.
C13_SnapshotFailureInvariant ==
  /\ kalshi # Null =>
       /\ kalshi # Thrown
       /\ ~kalshi.ok => kalshi.reason \in {"market_not_found", "fetch_error"}
  /\ (PassDone /\ ~kalshi.ok) =>
       /\ edge.marketUp = Null /\ edge.marketDown = Null
       /\ rec.action = "NO_TRADE" /\ rec.reason = "missing_market_data"
       /\ \A i \in 1..Len(orders) : orders[i].now # cycle
       /\ pc = "sleep"
       /\ signalFile # Null
       /\ signalFile.timestamp = cycle
       /\ signalFile.signal = "NO_TRADE"
       /\ signalFile.market_yes = Null /\ signalFile.market_no = Null
       /\ Len(csvRows) > 0 /\ csvRows[Len(csvRows)].signal = "NO TRADE"

C13_SnapshotSettleStep ==
  (/\ pc = "fetchAll"
   /\ <<cycle, "kalshi">> \in inflight
   /\ <<cycle, "kalshi">> \notin inflight') =>
    /\ pc' = "fetchAll"
    /\ kalshi' # Null /\ kalshi' # Thrown

C13_SnapshotNeverThrows ==
  []C13_SnapshotFailureInvariant /\ [][C13_SnapshotSettleStep]_vars

C13_Witness ==
  /\ pc = "sleep" /\ PassDone
  /\ ~kalshi.ok /\ kalshi.reason = "fetch_error"
  /\ autoTrade
  /\ signalFile.timestamp = cycle /\ signalFile.signal = "NO_TRADE"

\* C14: with auto-trade disabled no cycle ever calls placeOrder whatever the
\* decision is, and in any configuration placeOrder is called in a cycle only
\* if the decision of that cycle has action ENTER.
C14_OrderStep ==
  orders' # orders =>
    /\ autoTrade
    /\ rec'.action = "ENTER"
    /\ Len(orders') = Len(orders) + 1
    /\ orders'[Len(orders')].now = cycle

C14_NoAutomaticTrade ==
  [](~autoTrade => (orders = <<>> /\ pc # "placeOrder")) /\ [][C14_OrderStep]_vars

C14_Witness ==
  /\ ~autoTrade
  /\ pc = "sleep" /\ PassDone
  /\ rec.action = "ENTER"
  /\ orders = <<>>

\* C15: cycles never overlap: at most one pass is in progress, and a new
\* cycle starts only after the fetches, decision, order, signal write and
\* sleep of the previous cycle have all finished.
C15_CyclesNeverOverlap ==
  /\ \A f \in inflight : f[1] = cycle
  /\ pc = "loop" => (inflight = {} /\ rec = Null)

\* C16: when a price or candle fetch fails in a cycle, that cycle computes no
\* decision, places no order and leaves the signal file and the CSV log
\* unchanged, the host process does not terminate, and a new cycle is started
\* after the poll interval.
C16_AbandonStep ==
  (/\ pc \in {"fetchLastPrice", "fetchAll"}
   /\ pc' \notin {"fetchLastPrice", "fetchAll"}
   /\ rec' = Null) =>
    /\ pc' = "sleep"
    /\ UNCHANGED <<rec, edge, orders, lastTradeTimestamp, currentPosition,
                   signalFile, csvRows>>

C16_AbandonedInvariant ==
  /\ pc \in {"loop", "fetchLastPrice", "fetchAll", "placeOrder", "sleep"}
  /\ (pc = "sleep" /\ ~PassDone) =>
       /\ \A i \in 1..Len(orders) : orders[i].now # cycle
       /\ signalFile # Null => signalFile.timestamp # cycle
       /\ Len(csvRows) < cycle
  /\ pc = "sleep" => ENABLED Sleep
  /\ (pc = "loop" /\ cycle < MaxCycles) => ENABLED StartCycle

C16_SleepStep == pc = "sleep" => pc' \in {"sleep", "loop"}

C16_CycleAbandonedAsAWhole ==
  /\ []C16_AbandonedInvariant
  /\ [][C16_AbandonStep]_vars
  /\ [][C16_SleepStep]_vars

C16_Witness ==
  /\ pc = "sleep" /\ ~PassDone
  /\ cycle = 2
  /\ signalFile # Null /\ signalFile.timestamp = 1
  /\ <<2, "kalshi">> \in inflight

\* C18: every signal written is consistent with the decision of its cycle:
\* BUY_YES iff ENTER with side UP, BUY_NO iff ENTER with side DOWN, NO_TRADE
\* otherwise; signal_side, strength and best_edge are non-null iff the signal
\* is not NO_TRADE; best_edge is edge_up for BUY_YES and edge_down for BUY_NO;
\* phase is EARLY, MID or LATE.
C18_SignalConsistent ==
  (signalFile # Null) =>
    /\ signalFile.signal \in {"BUY_YES", "BUY_NO", "NO_TRADE"}
    /\ signalFile.phase \in {"EARLY", "MID", "LATE"}
    /\ signalFile.signal # "NO_TRADE" <=> signalFile.signal_side # "null"
    /\ signalFile.signal # "NO_TRADE" <=> signalFile.strength # "null"
    /\ signalFile.signal # "NO_TRADE" <=> signalFile.best_edge # Null
    /\ signalFile.signal = "BUY_YES" =>
         signalFile.signal_side = "UP" /\ signalFile.best_edge = signalFile.edge_up
    /\ signalFile.signal = "BUY_NO" =>
         signalFile.signal_side = "DOWN" /\ signalFile.best_edge = signalFile.edge_down
    /\ (PassDone /\ signalFile.timestamp = cycle) =>
         /\ signalFile.signal = "BUY_YES" <=> (rec.action = "ENTER" /\ rec.side = "UP")
         /\ signalFile.signal = "BUY_NO" <=> (rec.action = "ENTER" /\ rec.side = "DOWN")
         /\ signalFile.signal = "NO_TRADE" <=> rec.action # "ENTER"
         /\ signalFile.phase = rec.phase
         /\ rec.action = "ENTER" => signalFile.strength = rec.strength

C18_Witness ==
  /\ pc = "sleep" /\ PassDone
  /\ signalFile.timestamp = cycle
  /\ signalFile.signal = "BUY_NO"
  /\ signalFile.best_edge = signalFile.edge_down
  /\ signalFile.strength = "GOOD"

\* ------------------------------------- claims: computeEdge, normalization
InUnit(q) == q # Null /\ q[1] >= 0 /\ q[1] <= 100
QuotesKnown == fn = "computeEdge" /\ args.marketYes # Null /\ args.marketNo # Null
\* each returned side depends on its own quote only, and edgeUp does not
\* move with marketNo
SidesIndependent ==
  /\ InUnit(args.marketYes) => ret.marketUp = args.marketYes
  /\ InUnit(args.marketNo) => ret.marketDown = args.marketNo
  /\ \A q \in QuoteVals :
       LET other == computeEdge(args.modelUp, args.modelDown, args.marketYes, Num(q))
       IN other.marketUp = ret.marketUp /\ other.edgeUp = ret.edgeUp
  /\ \A q \in QuoteVals :
       LET other == computeEdge(args.modelUp, args.modelDown, Num(q), args.marketNo)
       IN other.marketDown = ret.marketDown /\ other.edgeDown = ret.edgeDown
SumKept == ret.marketUp[1] + ret.marketDown[1] = args.marketYes[1] + args.marketNo[1]

\* C21: computeEdge applies no normalization across sides: for non-null
\* quotes marketUp is determined by marketYes alone and marketDown by
\* marketNo alone (each equal to its input when that is in [0,1]), edgeUp
\* does not change when only marketNo changes, and a quote pair with
\* marketYes + marketNo != 1 is returned with the same sum.
C21_NoNormalization ==
  QuotesKnown =>
    /\ SidesIndependent
    /\ args.marketYes[1] + args.marketNo[1] # 100 => SumKept

\* C21 as amended: the sum is kept for a pair of quotes that both lie in
\* [0,1]; a quote outside [0,1] is clamped on its own side, which changes the
\* sum but is no normalization across sides.
C21_NoNormalizationInUnit ==
  QuotesKnown =>
    /\ SidesIndependent
    /\ (/\ InUnit(args.marketYes) /\ InUnit(args.marketNo)
        /\ args.marketYes[1] + args.marketNo[1] # 100) => SumKept

C21_Witness ==
  /\ QuotesKnown
  /\ args.marketYes = Num(50) /\ args.marketNo = Num(46)
  /\ ret.marketUp = Num(50) /\ ret.marketDown = Num(46)
  /\ args.modelUp = Num(68) /\ ret.edgeUp = Num(18)

\* ------------------------------------------------ claims: trade tracking
\* C22: the last trade is tracked to avoid duplicate entries: once an order
\* has been placed successfully (lastTradeTimestamp and currentPosition
\* recorded), later cycles whose decision is again ENTER place no other order
\* while that position is recorded.
C22_NoDuplicateEntry ==
  currentPosition # Null =>
    \A i \in 1..Len(orders) : orders[i].now <= currentPosition.entryTime

\* C30: a failed placeOrder is returned as {success:false}, not thrown:
\* lastTradeTimestamp and currentPosition keep their values and the cycle
\* goes on to write its signal with trade_executed = NO; the two change only
\* by a successful order, which records side yes for UP / no for DOWN,
\* maxPositionSize as count and the market price of the chosen side as entry
\* price.
C30_OrderOutcomeStep ==
  (pc = "placeOrder" /\ pc' # pc) =>
    /\ pc' = "sleep"
    /\ signalFile'.timestamp = cycle
    /\ Len(csvRows') = Len(csvRows) + 1
    /\ \/ /\ csvRows'[Len(csvRows')].trade_executed = "NO"
          /\ UNCHANGED <<lastTradeTimestamp, currentPosition>>
       \/ /\ csvRows'[Len(csvRows')].trade_executed = "YES"
          /\ lastTradeTimestamp' = cycle
          /\ currentPosition'.side = (IF rec.side = "UP" THEN "yes" ELSE "no")
          /\ currentPosition'.count = 10
          /\ currentPosition'.entryPrice =
               (IF rec.side = "UP" THEN signalFile'.market_yes
                ELSE signalFile'.market_no)

C30_PositionStep ==
  (lastTradeTimestamp' # lastTradeTimestamp \/ currentPosition' # currentPosition) =>
    /\ pc = "placeOrder"
    /\ csvRows'[Len(csvRows')].trade_executed = "YES"

C30_FailedOrderKeepsState ==
  [][C30_OrderOutcomeStep]_vars /\ [][C30_PositionStep]_vars

C30_Witness ==
  /\ pc = "sleep" /\ PassDone
  /\ cycle = 2
  /\ rec.action = "ENTER" /\ rec.side = "DOWN"
  /\ Len(orders) = 2
  /\ csvRows[2].trade_executed = "NO"
  /\ currentPosition # Null /\ currentPosition.entryTime = 1
  /\ currentPosition.side = "no"
  /\ lastTradeTimestamp = 1

\* ------------------------------------------------------ claims: vwapSlope
\* C23: the VWAP slope equals (vwapSeries[last] - vwapSeries[last - lookback])
\* / lookback, the latest value against the value exactly lookback candles
\* earlier, and is null when the series is shorter than the lookback.
C23_SlopeOverLookback ==
  fn = "vwapSlope" =>
    LET series == args.vwapSeries
        last == Len(series) - 1
    IN /\ Len(series) < args.lookback => ret.vwapSlope = Null
       /\ Len(series) > args.lookback =>
            /\ ret.vwapSlope # Null
            /\ ret.vwapSlope[1] * args.lookback =
                 At(series, last) - At(series, last - args.lookback)

\* ------------------------------------------------- claims: the MACD labels
Bearish == {"bearish", "bearish (expanding)"}
Bullish == {"bullish", "bullish (expanding)"}

\* C24: MACD is reported bearish iff histogram < 0 (expanding iff delta < 0)
\* and bullish iff histogram >= 0 (expanding iff delta > 0); a null MACD is
\* no opinion: neither the terminal label nor macd_signal of the JSON signal
\* reports bullish or bearish.
C24_MacdDirection ==
  fn = "macdLabels" =>
    /\ args.macd # Null =>
         LET hist == args.macd.hist
             delta == args.macd.histDelta
         IN /\ ret.macdLabel \in Bearish <=> hist < 0
            /\ ret.macdLabel \in Bullish <=> hist >= 0
            /\ ret.macdLabel = "bearish (expanding)" <=>
                 (hist < 0 /\ delta # Null /\ delta[1] < 0)
            /\ ret.macdLabel = "bullish (expanding)" <=>
                 (hist >= 0 /\ delta # Null /\ delta[1] > 0)
            /\ ret.macd_signal = "bearish" <=> hist < 0
            /\ ret.macd_signal = "bullish" <=> hist >= 0
    /\ args.macd = Null =>
         /\ ret.macdLabel \notin Bearish \cup Bullish
         /\ ret.macd_signal \notin {"bearish", "bullish"}

\* ---------------------------------------------------- claims: fetchKlines
\* the response lists its candles newest-first with distinct timestamps
NewestFirst(data) ==
  \A i \in 1..Len(data) - 1 : At(data[i], 0) > At(data[i + 1], 0)
Supported == {60, 300, 900, 3600, 21600, 86400}
ExpectedGranularity ==
  CASE args.interval = "5m" -> 300
    [] args.interval = "15m" -> 900
    [] args.interval = "1h" -> 3600
    [] args.interval = "1d" -> 86400
    [] OTHER -> 60

\* C25: given a response that lists candles newest-first with distinct
\* timestamps, fetchKlines returns the same candles oldest-first with strictly
\* increasing openTime, and every candle has closeTime = openTime +
\* granularity * 1000 > openTime for a supported granularity (60 s for an
\* unknown or unsupported interval).
C25_KlinesOldestFirst ==
  (fn = "fetchKlines" /\ args.resOk /\ NewestFirst(args.data)) =>
    /\ ~ret.thrown
    /\ LET klines == ret.value
       IN /\ Len(klines) = Len(args.data)
          /\ \A i \in 1..Len(klines) :
               LET raw == args.data[Len(klines) + 1 - i]
               IN /\ klines[i].openTime = raw[1] * 1000
                  /\ klines[i].low = Num(raw[2]) /\ klines[i].high = Num(raw[3])
                  /\ klines[i].open = Num(raw[4]) /\ klines[i].close = Num(raw[5])
                  /\ klines[i].volume = Num(raw[6])
                  /\ klines[i].closeTime =
                       klines[i].openTime + ExpectedGranularity * 1000
                  /\ klines[i].closeTime > klines[i].openTime
          /\ \A i \in 1..Len(klines) - 1 : klines[i].openTime < klines[i + 1].openTime
    /\ ExpectedGranularity \in Supported

C25_Witness ==
  /\ fn = "fetchKlines" /\ args.resOk
  /\ args.interval = "3m"
  /\ Len(args.data) = 3
  /\ At(args.data[1], 0) = 360 /\ At(args.data[2], 0) = 300 /\ At(args.data[3], 0) = 60
  /\ ret.value[1].openTime = 60000 /\ ret.value[1].closeTime = 120000
  /\ ret.value[3].openTime = 360000

\* --------------------------------------- claims: the Coinbase ticker stream
SocketIds == 1..Len(stream.sockets)
AllClosed == \A s \in SocketIds : stream.sockets[s] = "closed"
WasOpened(s) == \E i \in 1..Len(stream.sent) : stream.sent[i] = s

\* C26: after any sequence of open, close, error, constructor-failure, timer
\* and cleanup events at most one reconnect timer is pending and at most one
\* WebSocket is open or connecting; a reconnect never creates a socket while
\* another one is still connecting or connected.
C26_Invariant ==
  /\ Cardinality(stream.timers) <= 1
  /\ Cardinality({s \in SocketIds : stream.sockets[s] \in Live}) <= 1
  /\ stream.reconnectTimer # Null => stream.timers = {stream.reconnectTimer[1]}

C26_ConnectStep ==
  Len(stream'.sockets) > Len(stream.sockets) =>
    /\ Len(stream'.sockets) = Len(stream.sockets) + 1
    /\ \A s \in SocketIds : stream.sockets[s] \notin {"connecting", "open", "draining"}
    /\ ~stream.isConnected

C26_OneTimerOneSocket == []C26_Invariant /\ [][C26_ConnectStep]_vars

C26_Witness ==
  /\ Len(stream.sockets) = 2
  /\ stream.sockets[1] = "closed" /\ stream.sockets[2] = "open"
  /\ stream.attempts = 3
  /\ stream.timers = {}
  /\ stream.isConnected

\* C27: after cleanup() is called, in whatever state, no reconnect timer
\* remains or becomes pending and no new WebSocket connection is opened.
C27_CleanupStopsReconnect ==
  stream.cleaned =>
    /\ stream.reconnectTimer = Null
    /\ stream.timers = {}
    /\ \A s \in SocketIds : stream.sockets[s] \notin Live

\* C28: unless cleanup was called, a close or a failed construction is
\* followed by a reconnect attempt once the 5 s timer fires, after every
\* failure again; isConnected() is true only between the open and the close
\* event of the current socket; the subscribe message is sent on every open.
C28_Invariant ==
  /\ (~stream.cleaned /\ AllClosed) =>
       stream.reconnectTimer # Null /\ stream.timers # {}
  /\ stream.isConnected =>
       /\ stream.sockets # <<>>
       /\ stream.sockets[Len(stream.sockets)] \in {"open", "draining"}
  /\ \A s \in SocketIds : stream.sockets[s] \in {"open", "draining"} => WasOpened(s)
  /\ ~stream.crashed

C28_TimerStep ==
  (/\ stream'.lastEvent.kind = "timer"
   /\ stream'.timers # stream.timers
   /\ ~stream.isConnected) =>
    /\ stream'.attempts = stream.attempts + 1
    /\ \/ Len(stream'.sockets) = Len(stream.sockets) + 1
       \/ stream'.timers # {}

C28_Reconnects ==
  /\ []C28_Invariant
  /\ [][C28_TimerStep]_vars
  /\ \A n \in 1..(MaxAttempts - 1) :
       (~stream.cleaned /\ AllClosed /\ stream.attempts = n)
          ~> (stream.attempts > n \/ stream.cleaned)

C28_Witness ==
  /\ ~stream.cleaned
  /\ stream.attempts = 3
  /\ stream.sockets = <<"closed", "open">>
  /\ stream.sent = <<1, 2>>
  /\ stream.isConnected

\* C29: the last tick changes only when a message of type ticker for the
\* subscribed product with a finite price is received; everything else
\* leaves it unchanged, so it is never reset to null and survives a
\* disconnect.
FinitePrice(p) == p.type = "number" \/ (p.type = "string" /\ p.value = "")
C29_TickStep ==
  /\ stream'.lastTick # stream.lastTick =>
       /\ stream'.lastEvent.kind = "message"
       /\ stream'.lastEvent.msg.parsable
       /\ stream'.lastEvent.msg.type = "ticker"
       /\ stream'.lastEvent.msg.product_id = "BTC-USD"
       /\ FinitePrice(stream'.lastEvent.msg.price)
       /\ stream'.lastTick # Null
  /\ stream.lastTick # Null => stream'.lastTick # Null

C29_LastTickKept == [][C29_TickStep]_vars

C29_Witness ==
  /\ stream.lastTick = [price |-> 74800]
  /\ stream.lastEvent.kind = "cleanup"
  /\ ~stream.isConnected
  /\ stream.sockets = <<"closed", "failing">>
====
